---- MODULE Spec2Model ----
(***************************************************************************)
(* Model of the stress-test harness of scholar-map                         *)
(* (src/src/stress_test_data.py): main(), stress_test_insertion(),         *)
(* KnowledgeBaseTestSuite and run_interactive_tests().                     *)
(*                                                                         *)
(* The program is single threaded, so the state is one program counter    *)
(* `pc` plus the local variables and result dictionaries of the function  *)
(* that is executing.  The knowledge store is an external collaborator:   *)
(* every call of db_manager.server.query(...).fetch() either returns or   *)
(* raises, chosen nondeterministically.  A KeyboardInterrupt (Ctrl+C) is  *)
(* asynchronous and may arrive between any two steps.  Clock readings are *)
(* abstracted to small integers; floating point values are exact          *)
(* rationals <<numerator, denominator>>.  When a function returns, its    *)
(* locals are dropped; run_full_test_suite keeps of each result           *)
(* dictionary the fields its score computation reads.  The inputs         *)
(* explored are total_records >= 1, batch_size >= 1, num_queries >= 0.    *)
(***************************************************************************)
EXTENDS Integers, Sequences, FiniteSets, TLC

\* ---------------------------------------------------------------- bounds
\* largest --records value explored (the source default is 1000)
MaxRecords == 3
\* largest --batch-size value explored (the source default is 100)
MaxBatch == 3

\* number of canned queries of KnowledgeBaseTestSuite.test_queries that the
\* model keeps (the source list has 25 distinct strings)
CorpusSize == 3
\* largest clock difference, in ticks, one store query can take
MaxLatency == 2
\* number of questions of ai_test_questions the model keeps (source: 10)
AiCorpusSize == 2
\* number of distinct titles in the store, and rows per title, explored
NumTitles == 2
MaxPerTitle == 2
\* largest number of rows with a missing field, and of rows with a negative
\* citation count, explored
MaxIssueRows == 1

\* largest count passed to generate_batch explored
MaxGenBatch == 2
\* number of days of range(0, 3650) the model keeps
WindowDays == 2
\* random.expovariate(0.1) is a real number: the model draws it as a
\* multiple of 1/ExpoDen, up to MaxExpoNum/ExpoDen (40, so that the scaled
\* value of a one day old paper passes 1)
ExpoDen == 2
MaxExpoNum == 80
\* random.randint(-50, 200), kept as -NoiseLow..NoiseHigh
NoiseLow == 1
NoiseHigh == 1

\* largest interval_minutes passed to create_insertion_job explored
MaxInterval == 3
\* number of executions of the periodic job explored
MaxExecutions == 4

\* "no value" for exit_code while main() is still running
Running == -1
\* float("inf"), the initial min_response_time
Infinity == 999999

VARIABLES
    pc,                 \* position of the single thread of control
    args,               \* parsed command line flags
    connect_result,     \* value returned by MindsDBManager.connect()
    exit_code,          \* value returned by main(), Running before that
    error,              \* exception that reached a handler of main()
    interrupted,        \* where a KeyboardInterrupt was caught
    prompts,            \* number of Confirm.ask questions put to the user
    data_success,       \* main(): result of stress_test_insertion ("True",
                        \* "False"), "unset" before it returned
    \* ---- locals of stress_test_insertion
    total_records, batch_size, num_batches, batch_num, current_batch_size,
    paper_idx,          \* papers of batch_papers already passed by the for loop
    successful_inserts, failed_inserts, papers_per_second_history,
    \* ---- calls stress_test_insertion made to its collaborators
    gen_calls,          \* counts passed to generator.generate_batch
    write_log,          \* one entry per db_manager.server.query(insert_query)
    write_failed,       \* some insert of this run of main() raised
    \* ---- KnowledgeBaseTestSuite
    caller,             \* who called the test function that is executing
    results_basic,      \* test_basic_database_operations: its results
    \* ---- locals of test_search_performance
    num_queries,        \* parameter
    test_queries,       \* the sampled queries
    query_i,            \* queries already looped over
    results_search,     \* the results dictionary being filled
    \* ---- locals of test_ai_agent_responses
    num_tests,          \* parameter
    ai_n,               \* len(test_questions)
    ai_i,               \* questions already looped over
    ai_results,         \* the results dictionary (counts)
    \* ---- locals of test_data_integrity
    kb,                 \* research_papers_kb as the audit finds it: the
                        \* number of rows carrying each title
    audit_queries,      \* queries test_data_integrity has issued
    audit_error,        \* its except branch printed "Data integrity test error"
    results_integrity,  \* the results dictionary being filled
    \* ---- locals of run_full_test_suite
    basic_results,      \* what the suite reads of the basic results
    performance_results, \* what the suite reads of the probe's results
    integrity_results,  \* what the suite reads of the audit's results
    scores, overall_score,
    display_status,     \* "Database Status" line of display_test_results
    \* ---- StressTestDataGenerator, called on its own
    gen_pc,             \* position in the method that was called
    gen_op,             \* the method that was called
    gen_count,          \* generate_batch: its parameter count
    gen_papers,         \* generate_batch: the list being built
    gen_uuids,          \* number of uuid.uuid4() values drawn so far
    gen_draw,           \* the random draws of the last call
    gen_result,         \* the value the last call returned
    \* ---- test_ai_workflow() and JobManager
    script_pc,          \* position in the script
    wf_connect,         \* test_ai_workflow: how connect() went and what it returned
    wf_result,          \* test_ai_workflow: the value it returned
    job_query,          \* the text of the CREATE JOB statement (its literals)
    job_rows,           \* rows the executions of the job have inserted
    job_failed,         \* executions of the job whose INSERT was refused
    script_uuids        \* number of uuid.uuid4() values drawn so far

loaderVars == <<total_records, batch_size, num_batches, batch_num,
                current_batch_size, paper_idx, successful_inserts,
                failed_inserts, papers_per_second_history, gen_calls,
                write_log>>

mainVars == <<args, connect_result, exit_code, error, interrupted, prompts,
              data_success>>

probeVars == <<num_queries, test_queries, query_i, results_search>>

aiVars == <<num_tests, ai_n, ai_i, ai_results>>

auditVars == <<kb, audit_queries, audit_error, results_integrity>>

scoreVars == <<basic_results, performance_results, integrity_results, scores,
               overall_score, display_status>>

suiteVars == <<caller, results_basic, probeVars, aiVars, auditVars, scoreVars>>

genVars == <<gen_pc, gen_op, gen_count, gen_papers, gen_uuids, gen_draw,
             gen_result>>

scriptVars == <<script_pc, wf_connect, wf_result, job_query, job_rows,
                job_failed, script_uuids>>

auxVars == <<genVars, scriptVars>>

programVars == <<pc, mainVars, loaderVars, write_failed, suiteVars>>

vars == <<programVars, auxVars>>

\* ------------------------------------------------------------- helpers
Min(a, b) == IF a <= b THEN a ELSE b

Max(a, b) == IF a >= b THEN a ELSE b

RECURSIVE SumSeq(_)
SumSeq(s) == IF s = <<>> THEN 0 ELSE Head(s) + SumSeq(Tail(s))

\* ceil(totalCount / batchSize), the reference the batch count is compared to
CeilDiv(a, b) == IF a % b = 0 THEN a \div b ELSE (a \div b) + 1

\* ------------------------------------------------- stress_test_insertion
\* variant: the batch count rounded down
NumBatchesFloor(total, size) == total \div size

\* num_batches = (total_records + batch_size - 1) // batch_size
NumBatches(total, size) == (total + size - 1) \div size

\* remaining_papers = total_records - batch_num * batch_size;
\* current_batch_size = min(batch_size, remaining_papers)
CurrentBatchSize(total, size, b) == Min(size, total - (b * size))

\* failed_inserts += current_batch_size   (the except branch of a batch)
FailedAfterError(failed, size) == failed + size

\* the locals of stress_test_insertion before the call and after the return
LoaderIdle ==
    /\ total_records = 0 /\ batch_size = 0 /\ num_batches = 0
    /\ batch_num = 0 /\ current_batch_size = 0 /\ paper_idx = 0
    /\ successful_inserts = 0 /\ failed_inserts = 0
    /\ papers_per_second_history = <<>>
    /\ gen_calls = <<>> /\ write_log = <<>>

LoaderReset ==
    /\ total_records' = 0 /\ batch_size' = 0 /\ num_batches' = 0
    /\ batch_num' = 0 /\ current_batch_size' = 0 /\ paper_idx' = 0
    /\ successful_inserts' = 0 /\ failed_inserts' = 0
    /\ papers_per_second_history' = <<>>
    /\ gen_calls' = <<>> /\ write_log' = <<>>

\* ---- exact arithmetic for the float expressions of the scores
RECURSIVE Gcd(_, _)
Gcd(a, b) == IF b = 0 THEN a ELSE Gcd(b, a % b)

\* the rational n/d (d > 0) in lowest terms
Rat(n, d) ==
    LET g == Gcd(IF n < 0 THEN -n ELSE n, d)
    IN  IF g = 0 THEN <<0, 1>> ELSE <<n \div g, d \div g>>

RAdd(x, y) == Rat((x[1] * y[2]) + (y[1] * x[2]), x[2] * y[2])

RECURSIVE RSum(_)
RSum(s) == IF s = <<>> THEN <<0, 1>> ELSE RAdd(Head(s), RSum(Tail(s)))

\* x >= k for a rational x and an integer k
RGe(x, k) == x[1] >= k * x[2]

\* ---- initial values of the result dictionaries
\* test_basic_database_operations: results = {...}
BasicInit ==
    [connection_test |-> FALSE, record_count |-> 0, sample_retrieval |-> FALSE]

\* test_search_performance: results = {...}
SearchInit ==
    [total_queries |-> 0, successful_queries |-> 0, failed_queries |-> 0,
     average_response_time |-> <<0, 1>>, min_response_time |-> Infinity,
     max_response_time |-> 0, response_times |-> <<>>, query_results |-> <<>>]

\* test_ai_agent_responses: results = {...}
AiInit ==
    [total_tests |-> 0, successful_responses |-> 0, failed_responses |-> 0]

\* test_data_integrity: results = {...}
IntegrityInit ==
    [total_records |-> 0, records_with_missing_fields |-> 0,
     duplicate_titles |-> 0, invalid_citations |-> 0,
     category_distribution |-> FALSE, field_distribution |-> FALSE,
     integrity_score |-> <<0, 1>>]

\* a store without rows
EmptyKB == [t \in 1..NumTitles |-> 0]

SuiteIdle ==
    /\ caller = "none"
    /\ results_basic = BasicInit
    /\ basic_results = [connection_test |-> FALSE]
    /\ num_queries = 0 /\ test_queries = <<>> /\ query_i = 0
    /\ results_search = SearchInit
    /\ num_tests = 0 /\ ai_n = 0 /\ ai_i = 0 /\ ai_results = AiInit
    /\ kb = EmptyKB /\ audit_queries = 0 /\ audit_error = FALSE
    /\ results_integrity = IntegrityInit
    /\ performance_results = [successful_queries |-> 0, total_queries |-> 0]
    /\ integrity_results = [integrity_score |-> <<0, 1>>]
    /\ scores = <<>> /\ overall_score = <<0, 1>>
    /\ display_status = "none"

\* no method of StressTestDataGenerator has been called
GenIdle ==
    /\ gen_pc = "idle" /\ gen_op = "none"
    /\ gen_count = 0 /\ gen_papers = <<>> /\ gen_uuids = 0
    /\ gen_draw = [kind |-> "none"]
    /\ gen_result = [kind |-> "none"]

\* neither script has started
ScriptIdle ==
    /\ script_pc = "idle"
    /\ wf_connect = [outcome |-> "none", result |-> "unset"]
    /\ wf_result = "unset"
    /\ job_query = [kind |-> "none"]
    /\ job_rows = <<>> /\ job_failed = 0
    /\ script_uuids = 0

Init ==
    /\ pc = "main_connect"
    /\ args \in [interactive : BOOLEAN, test_only : BOOLEAN, no_confirm : BOOLEAN]
    /\ connect_result = "unset"
    /\ exit_code = Running
    /\ error = "none"
    /\ interrupted = "no"
    /\ prompts = 0
    /\ data_success = "unset"
    /\ write_failed = FALSE
    /\ LoaderIdle
    /\ SuiteIdle
    /\ GenIdle
    /\ ScriptIdle

\* ------------------------------------------------------------------ main
\* MindsDBManager.connect() returns False on a connection error and when
\* creating the knowledge base ends in SystemExit; on success it falls off
\* the end of the function, which returns None.
ConnectReturn(outcome) ==
    IF outcome \in {"kb_found", "kb_created"} THEN "None" ELSE "False"

\* variant: main() goes on after a failed connect()
ConnectIgnoresFailure ==
    /\ pc = "main_connect"
    /\ \E outcome \in {"kb_found", "kb_created", "kb_create_exit", "conn_error"} :
          connect_result' = ConnectReturn(outcome)
    /\ pc' = "main_mode"
    /\ UNCHANGED <<args, exit_code, error, interrupted, prompts, data_success,
                   loaderVars, write_failed, suiteVars>>
    /\ UNCHANGED auxVars

\* variant: a failed connect() makes main() return 2
ConnectFailureReturnsTwo ==
    /\ pc = "main_connect"
    /\ \E outcome \in {"kb_found", "kb_created", "kb_create_exit", "conn_error"} :
          /\ connect_result' = ConnectReturn(outcome)
          /\ IF ConnectReturn(outcome) = "False"
                THEN pc' = "done" /\ exit_code' = 2
                ELSE pc' = "main_mode" /\ exit_code' = exit_code
    /\ UNCHANGED <<args, error, interrupted, prompts, data_success,
                   loaderVars, write_failed, suiteVars>>
    /\ UNCHANGED auxVars

\* main(): `if manager.connect() is False: return 1`
Connect ==
    /\ pc = "main_connect"
    /\ \E outcome \in {"kb_found", "kb_created", "kb_create_exit", "conn_error"} :
          /\ connect_result' = ConnectReturn(outcome)
          /\ IF ConnectReturn(outcome) = "False"
                THEN pc' = "done" /\ exit_code' = 1
                ELSE pc' = "main_mode" /\ exit_code' = exit_code
    /\ UNCHANGED <<args, error, interrupted, prompts, data_success,
                   loaderVars, write_failed, suiteVars>>
    /\ UNCHANGED auxVars

\* main(): `if args.test_only:` skips the data generation
TestOnly ==
    /\ pc = "main_mode"
    /\ ~args.interactive /\ args.test_only
    /\ pc' = "suite_start"
    /\ UNCHANGED <<mainVars, loaderVars, write_failed, suiteVars>>
    /\ UNCHANGED auxVars

\* main(): the call stress_test_insertion(manager, args.records,
\* args.batch_size) binds the parameters total_records and batch_size.
CallInsertion ==
    /\ pc = "main_mode"
    /\ ~args.interactive /\ ~args.test_only
    /\ \E r \in 1..MaxRecords, b \in 1..MaxBatch :
          /\ total_records' = r
          /\ batch_size' = b
    /\ pc' = "ins_confirm"
    /\ UNCHANGED <<mainVars, num_batches, batch_num, current_batch_size,
                   paper_idx, successful_inserts, failed_inserts,
                   papers_per_second_history, gen_calls, write_log,
                   write_failed, suiteVars>>
    /\ UNCHANGED auxVars

\* ------------------------------------------------- stress_test_insertion
\* variant: a refusal ends the run with exit code 1
ConfirmInsertionRefusalExits ==
    /\ pc = "ins_confirm"
    /\ prompts' = prompts + 1
    /\ \E answer \in BOOLEAN :
          IF answer
             THEN /\ num_batches' = NumBatches(total_records, batch_size)
                  /\ pc' = "ins_batch"
                  /\ UNCHANGED <<data_success, total_records, batch_size,
                                 exit_code>>
             ELSE /\ data_success' = "False"
                  /\ pc' = "done"
                  /\ exit_code' = 1
                  /\ num_batches' = 0
                  /\ total_records' = 0 /\ batch_size' = 0
    /\ UNCHANGED <<args, connect_result, error, interrupted,
                   batch_num, current_batch_size, paper_idx,
                   successful_inserts, failed_inserts,
                   papers_per_second_history, gen_calls, write_log,
                   write_failed, suiteVars>>
    /\ UNCHANGED auxVars

\* Confirm.ask("Do you want to proceed?") is asked whatever the flags are;
\* a refusal returns False to main, which goes on with the tests.
ConfirmInsertion ==
    /\ pc = "ins_confirm"
    /\ prompts' = prompts + 1
    /\ \E answer \in BOOLEAN :
          IF answer
             THEN /\ num_batches' = NumBatches(total_records, batch_size)
                  /\ pc' = "ins_batch"
                  /\ UNCHANGED <<data_success, total_records, batch_size>>
             ELSE /\ data_success' = "False"
                  /\ pc' = "suite_start"
                  /\ num_batches' = 0
                  /\ total_records' = 0 /\ batch_size' = 0
    /\ UNCHANGED <<args, connect_result, exit_code, error, interrupted,
                   batch_num, current_batch_size, paper_idx,
                   successful_inserts, failed_inserts,
                   papers_per_second_history, gen_calls, write_log,
                   write_failed, suiteVars>>
    /\ UNCHANGED auxVars

\* for batch_num in range(num_batches): size the batch and generate it
StartBatch ==
    /\ pc = "ins_batch"
    /\ batch_num < num_batches
    /\ current_batch_size' = CurrentBatchSize(total_records, batch_size, batch_num)
    /\ gen_calls' = Append(gen_calls, current_batch_size')
    /\ paper_idx' = 0
    /\ pc' = "ins_write"
    /\ UNCHANGED <<mainVars, total_records, batch_size, num_batches, batch_num,
                   successful_inserts, failed_inserts,
                   papers_per_second_history, write_log, write_failed,
                   suiteVars>>
    /\ UNCHANGED auxVars

\* for paper in batch_papers: query = server.query(insert_query); query.fetch()
\* The write returned: successful_inserts += 1 and the loop goes on.
WriteOk ==
    /\ pc = "ins_write"
    /\ paper_idx < current_batch_size
    /\ write_log' = Append(write_log, [batch |-> batch_num, ok |-> TRUE])
    /\ successful_inserts' = successful_inserts + 1
    /\ paper_idx' = paper_idx + 1
    /\ UNCHANGED <<pc, mainVars, total_records, batch_size, num_batches,
                   batch_num, current_batch_size, failed_inserts,
                   papers_per_second_history, gen_calls, write_failed,
                   suiteVars>>
    /\ UNCHANGED auxVars

\* The write raised: `except Exception` encloses the whole for loop, so the
\* rest of the batch is skipped and failed_inserts += current_batch_size.
WriteFail ==
    /\ pc = "ins_write"
    /\ paper_idx < current_batch_size
    /\ write_log' = Append(write_log, [batch |-> batch_num, ok |-> FALSE])
    /\ failed_inserts' = FailedAfterError(failed_inserts, current_batch_size)
    /\ write_failed' = TRUE
    /\ batch_num' = batch_num + 1
    /\ pc' = "ins_batch"
    /\ UNCHANGED <<mainVars, total_records, batch_size, num_batches,
                   current_batch_size, paper_idx, successful_inserts,
                   papers_per_second_history, gen_calls, suiteVars>>
    /\ UNCHANGED auxVars

\* after the for loop of a batch: papers_per_second_history.append(...)
\* (the clock is abstracted: the entry is the requested size of the batch)
BatchMetrics ==
    /\ pc = "ins_write"
    /\ paper_idx = current_batch_size
    /\ papers_per_second_history' =
          Append(papers_per_second_history, current_batch_size)
    /\ batch_num' = batch_num + 1
    /\ pc' = "ins_batch"
    /\ UNCHANGED <<mainVars, total_records, batch_size, num_batches,
                   current_batch_size, paper_idx, successful_inserts,
                   failed_inserts, gen_calls, write_log, write_failed,
                   suiteVars>>
    /\ UNCHANGED auxVars

\* the for loop over the batches is exhausted
BatchesDone ==
    /\ pc = "ins_batch"
    /\ batch_num = num_batches
    /\ pc' = "ins_report"
    /\ UNCHANGED <<mainVars, loaderVars, write_failed, suiteVars>>
    /\ UNCHANGED auxVars

\* KeyboardInterrupt inside the try block of stress_test_insertion:
\* `except KeyboardInterrupt` ends the loop wherever it is.  The inner
\* `except Exception` does not catch it (KeyboardInterrupt is a
\* BaseException).
InterruptInsertion ==
    /\ pc \in {"ins_batch", "ins_write"}
    /\ interrupted' = "loader"
    /\ pc' = "ins_report"
    /\ UNCHANGED <<args, connect_result, exit_code, error, prompts,
                   data_success, loaderVars, write_failed, suiteVars>>
    /\ UNCHANGED auxVars

\* variant: the success rate divided by the successes alone
ReportRaisesOnNoSuccess(succ, failed) == succ = 0

\* the final performance report evaluates
\* successful_inserts/(successful_inserts+failed_inserts)*100
ReportRaises(succ, failed) == succ + failed = 0

\* Final performance report and `return successful_inserts > 0`; a
\* ZeroDivisionError of the report propagates to `except Exception` of main.
ReportInsertion ==
    /\ pc = "ins_report"
    /\ IF ReportRaises(successful_inserts, failed_inserts)
          THEN /\ error' = "ZeroDivisionError"
               /\ exit_code' = 1
               /\ pc' = "done"
               /\ data_success' = data_success
          ELSE /\ data_success' =
                    (IF successful_inserts > 0 THEN "True" ELSE "False")
               /\ pc' = "suite_start"
               /\ UNCHANGED <<error, exit_code>>
    /\ LoaderReset
    /\ UNCHANGED <<args, connect_result, interrupted, prompts, write_failed,
                   suiteVars>>
    /\ UNCHANGED auxVars

\* ------------------------------------------- KnowledgeBaseTestSuite
\* run_full_test_suite is entered (from main, or as choice 5 of the menu)
RunFullTestSuite ==
    /\ pc = "suite_start"
    /\ caller' = "suite"
    /\ pc' = "basic"
    /\ UNCHANGED <<mainVars, loaderVars, write_failed, results_basic,
                   probeVars, aiVars, auditVars, scoreVars>>
    /\ UNCHANGED auxVars

\* test_basic_database_operations: the results left by each way its two
\* queries can go (an exception is caught and leaves what was set so far;
\* the sample query is only issued when record_count > 0).  record_count is
\* only compared with 0, so the counts explored are 0 and 1.
BasicOutcome(outcome, count, rows) ==
    CASE outcome = "count_raises" -> BasicInit
      [] outcome = "sample_raises" ->
            [connection_test |-> TRUE, record_count |-> count,
             sample_retrieval |-> FALSE]
      [] outcome = "done" ->
            [connection_test |-> TRUE, record_count |-> count,
             sample_retrieval |-> (count > 0 /\ rows)]

TestBasicDatabaseOperations ==
    /\ pc = "basic"
    /\ \E outcome \in {"count_raises", "sample_raises", "done"},
          count \in 0..1, rows \in BOOLEAN :
          /\ outcome = "sample_raises" => count > 0
          /\ results_basic' = BasicOutcome(outcome, count, rows)
    /\ pc' = "basic_ret"
    /\ UNCHANGED <<mainVars, loaderVars, write_failed, caller, probeVars,
                   aiVars, auditVars, scoreVars>>
    /\ UNCHANGED auxVars

\* ---- test_search_performance
\* the default of num_queries (20 of the 25 canned queries in the source):
\* a strict part of the corpus
DefaultNumQueries == CorpusSize - 1

\* min(num_queries, len(self.test_queries))
SampleSize(n, corpus) == Min(n, corpus)

\* variant: k draws with replacement (random.choices)
RandomChoices(corpus, k) == [1..k -> 1..corpus]

\* random.sample(population, k): every sequence of k distinct positions
RandomSample(corpus, k) ==
    {s \in [1..k -> 1..corpus] : \A i, j \in 1..k : i # j => s[i] # s[j]}

\* the try branch of the query loop, lines 168-188
RecordSuccess(r, q, t) ==
    [r EXCEPT !.total_queries = @ + 1,
              !.successful_queries = @ + 1,
              !.response_times = Append(@, t),
              !.min_response_time = Min(@, t),
              !.max_response_time = Max(@, t),
              !.query_results =
                  Append(@, [query |-> q, response_time |-> t, success |-> TRUE])]

\* variant: a failed query is not counted in total_queries
RecordFailureUncounted(r, q, t) ==
    [r EXCEPT !.failed_queries = @ + 1,
              !.query_results =
                  Append(@, [query |-> q, error |-> TRUE, success |-> FALSE])]

\* the except branch of the query loop, lines 190-198 (t is the elapsed
\* time of the failed query, kept in the local response_time only)
RecordFailure(r, q, t) ==
    [r EXCEPT !.total_queries = @ + 1,
              !.failed_queries = @ + 1,
              !.query_results =
                  Append(@, [query |-> q, error |-> TRUE, success |-> FALSE])]

\* variant: the average taken over all the queries, failed ones included
FinishAverageOverAll(r) ==
    IF r.response_times # <<>>
       THEN [r EXCEPT !.average_response_time =
                          Rat(SumSeq(r.response_times), r.total_queries)]
       ELSE r

\* lines 206-209: the average over response_times, when there is one
FinishAverage(r) ==
    IF r.response_times # <<>>
       THEN [r EXCEPT !.average_response_time =
                          Rat(SumSeq(r.response_times), Len(r.response_times))]
       ELSE r

\* run_full_test_suite: performance_results = self.test_search_performance();
\* of basic_results the suite keeps connection_test, the field it reads
SuiteCallSearch ==
    /\ pc = "basic_ret" /\ caller = "suite"
    /\ basic_results' = [connection_test |-> results_basic.connection_test]
    /\ results_basic' = BasicInit
    /\ num_queries' = DefaultNumQueries
    /\ pc' = "search_sample"
    /\ UNCHANGED <<mainVars, loaderVars, write_failed, caller,
                   test_queries, query_i, results_search, aiVars, auditVars,
                   performance_results, integrity_results, scores,
                   overall_score, display_status>>
    /\ UNCHANGED auxVars

\* results = {...}; test_queries = random.sample(...)
SampleQueries ==
    /\ pc = "search_sample"
    /\ results_search' = SearchInit
    /\ test_queries' \in RandomSample(CorpusSize, SampleSize(num_queries, CorpusSize))
    /\ query_i' = 0
    /\ pc' = "search_loop"
    /\ UNCHANGED <<mainVars, loaderVars, write_failed, caller, results_basic,
                   num_queries, aiVars, auditVars, scoreVars>>
    /\ UNCHANGED auxVars

\* one iteration of the query loop whose query returned after t ticks
QueryOk ==
    /\ pc = "search_loop"
    /\ query_i < Len(test_queries)
    /\ \E t \in 1..MaxLatency :
          results_search' = RecordSuccess(results_search, test_queries[query_i + 1], t)
    /\ query_i' = query_i + 1
    /\ UNCHANGED <<pc, mainVars, loaderVars, write_failed, caller,
                   results_basic, num_queries, test_queries, aiVars,
                   auditVars, scoreVars>>
    /\ UNCHANGED auxVars

\* one iteration of the query loop whose query raised after t ticks
QueryFail ==
    /\ pc = "search_loop"
    /\ query_i < Len(test_queries)
    /\ \E t \in 1..MaxLatency :
          results_search' = RecordFailure(results_search, test_queries[query_i + 1], t)
    /\ query_i' = query_i + 1
    /\ UNCHANGED <<pc, mainVars, loaderVars, write_failed, caller,
                   results_basic, num_queries, test_queries, aiVars,
                   auditVars, scoreVars>>
    /\ UNCHANGED auxVars

\* after the loop: the average, and `return results`
SearchReturn ==
    /\ pc = "search_loop"
    /\ query_i = Len(test_queries)
    /\ results_search' = FinishAverage(results_search)
    /\ pc' = "search_ret"
    /\ UNCHANGED <<mainVars, loaderVars, write_failed, caller, results_basic,
                   num_queries, test_queries, query_i, aiVars, auditVars,
                   scoreVars>>
    /\ UNCHANGED auxVars

\* ---- test_ai_agent_responses
\* the default of num_tests (10, the number of ai_test_questions)
DefaultNumTests == AiCorpusSize

\* MindsDBManager has no ask_scholar_agent, so every question runs the
\* fallback query; the default of num_tests covers all the questions.
\* run_full_test_suite keeps of performance_results the two counts it reads.
SuiteCallAi ==
    /\ pc = "search_ret" /\ caller = "suite"
    /\ performance_results' =
          [successful_queries |-> results_search.successful_queries,
           total_queries |-> results_search.total_queries]
    /\ num_queries' = 0 /\ test_queries' = <<>> /\ query_i' = 0
    /\ results_search' = SearchInit
    /\ num_tests' = DefaultNumTests
    /\ ai_n' = Min(DefaultNumTests, AiCorpusSize)
    /\ ai_i' = 0
    /\ ai_results' = AiInit
    /\ pc' = "ai_loop"
    /\ UNCHANGED <<mainVars, loaderVars, write_failed, caller, results_basic,
                   auditVars, basic_results, integrity_results, scores,
                   overall_score, display_status>>
    /\ UNCHANGED auxVars

AiOk ==
    /\ pc = "ai_loop"
    /\ ai_i < ai_n
    /\ ai_results' = [ai_results EXCEPT !.total_tests = @ + 1,
                                        !.successful_responses = @ + 1]
    /\ ai_i' = ai_i + 1
    /\ UNCHANGED <<pc, mainVars, loaderVars, write_failed, caller,
                   results_basic, probeVars, num_tests, ai_n, auditVars,
                   scoreVars>>
    /\ UNCHANGED auxVars

AiFail ==
    /\ pc = "ai_loop"
    /\ ai_i < ai_n
    /\ ai_results' = [ai_results EXCEPT !.total_tests = @ + 1,
                                        !.failed_responses = @ + 1]
    /\ ai_i' = ai_i + 1
    /\ UNCHANGED <<pc, mainVars, loaderVars, write_failed, caller,
                   results_basic, probeVars, num_tests, ai_n, auditVars,
                   scoreVars>>
    /\ UNCHANGED auxVars

AiReturn ==
    /\ pc = "ai_loop"
    /\ ai_i = ai_n
    /\ pc' = "ai_ret"
    /\ UNCHANGED <<mainVars, loaderVars, write_failed, suiteVars>>
    /\ UNCHANGED auxVars

\* ---- test_data_integrity
\* the stores the audit is run against
RECURSIVE SumTitles(_, _)
SumTitles(f, n) == IF n = 0 THEN 0 ELSE f[n] + SumTitles(f, n - 1)

\* SELECT COUNT(*) FROM research_papers_kb
TotalRows(k) == SumTitles(k, NumTitles)

\* titles are numbered by decreasing number of rows
KBs ==
    {k \in [1..NumTitles -> 0..MaxPerTitle] :
        \A t \in 1..(NumTitles - 1) : k[t] >= k[t + 1]}

\* variant: the rows of the colliding groups added up (SELECT SUM(cnt))
DuplicateRecords(k) ==
    SumTitles([t \in 1..NumTitles |-> IF k[t] > 1 THEN k[t] ELSE 0], NumTitles)

\* SELECT COUNT(*) FROM (SELECT title ... GROUP BY title HAVING COUNT(*) > 1):
\* one row per title that occurs more than once
DuplicateCount(k) == Cardinality({t \in 1..NumTitles : k[t] > 1})

\* `x[0][col] if not x.empty else 0` for the count-like queries
CountOrZero(shape, value) == IF shape = "rows" THEN value ELSE 0

\* variant: the score without the max(0, ...) clamp
IntegrityScoreUnclamped(r) ==
    LET issues == r.records_with_missing_fields + r.duplicate_titles
                  + r.invalid_citations
    IN  Rat((100 * r.total_records) - (100 * issues), r.total_records)

\* max(0, 100 - (total_issues / total_records * 100)), lines 394-402
IntegrityScore(r) ==
    LET issues == r.records_with_missing_fields + r.duplicate_titles
                  + r.invalid_citations
        v == Rat((100 * r.total_records) - (100 * issues), r.total_records)
    IN  IF v[1] < 0 THEN <<0, 1>> ELSE v

\* variant: no early return on an empty store
AfterCountNoReturn(total) == "int_missing"

\* `if results["total_records"] == 0: return results`, lines 340-341
AfterCount(total) == IF total = 0 THEN "int_ret" ELSE "int_missing"

\* run_full_test_suite: integrity_results = self.test_data_integrity()
SuiteCallIntegrity ==
    /\ pc = "ai_ret" /\ caller = "suite"
    /\ kb' \in KBs
    /\ audit_queries' = 0
    /\ audit_error' = FALSE
    /\ results_integrity' = IntegrityInit
    /\ pc' = "int_count"
    /\ UNCHANGED <<mainVars, loaderVars, write_failed, caller, results_basic,
                   probeVars, aiVars, scoreVars>>
    /\ UNCHANGED auxVars

\* the count query returned; `if results["total_records"] == 0: return results`
IntegrityCount ==
    /\ pc = "int_count"
    /\ audit_queries' = audit_queries + 1
    /\ \E shape \in {"rows", "empty"} :
          /\ results_integrity' =
                [results_integrity EXCEPT
                    !.total_records = CountOrZero(shape, TotalRows(kb))]
          /\ pc' = AfterCount(CountOrZero(shape, TotalRows(kb)))
    /\ UNCHANGED <<mainVars, loaderVars, write_failed, caller, results_basic,
                   probeVars, aiVars, kb, audit_error, scoreVars>>
    /\ UNCHANGED auxVars

\* the rows a WHERE clause of the audit can select: some of the rows
IssueRows(k) == 0..Min(TotalRows(k), MaxIssueRows)

\* the rows with an empty title, authors or abstract: any number of the rows
IntegrityMissing ==
    /\ pc = "int_missing"
    /\ audit_queries' = audit_queries + 1
    /\ \E shape \in {"rows", "empty"}, missing \in IssueRows(kb) :
          results_integrity' =
             [results_integrity EXCEPT
                 !.records_with_missing_fields = CountOrZero(shape, missing)]
    /\ pc' = "int_dup"
    /\ UNCHANGED <<mainVars, loaderVars, write_failed, caller, results_basic,
                   probeVars, aiVars, kb, audit_error, scoreVars>>
    /\ UNCHANGED auxVars

IntegrityDuplicates ==
    /\ pc = "int_dup"
    /\ audit_queries' = audit_queries + 1
    /\ \E shape \in {"rows", "empty"} :
          results_integrity' =
             [results_integrity EXCEPT
                 !.duplicate_titles = CountOrZero(shape, DuplicateCount(kb))]
    /\ pc' = "int_cit"
    /\ UNCHANGED <<mainVars, loaderVars, write_failed, caller, results_basic,
                   probeVars, aiVars, kb, audit_error, scoreVars>>
    /\ UNCHANGED auxVars

\* the rows with citation_count < 0: any number of the rows
IntegrityCitations ==
    /\ pc = "int_cit"
    /\ audit_queries' = audit_queries + 1
    /\ \E shape \in {"rows", "empty"}, negative \in IssueRows(kb) :
          results_integrity' =
             [results_integrity EXCEPT
                 !.invalid_citations = CountOrZero(shape, negative)]
    /\ pc' = "int_cat"
    /\ UNCHANGED <<mainVars, loaderVars, write_failed, caller, results_basic,
                   probeVars, aiVars, kb, audit_error, scoreVars>>
    /\ UNCHANGED auxVars

\* the category distribution (its content is abstracted to "was filled")
IntegrityCategories ==
    /\ pc = "int_cat"
    /\ audit_queries' = audit_queries + 1
    /\ results_integrity' = [results_integrity EXCEPT !.category_distribution = TRUE]
    /\ pc' = "int_field"
    /\ UNCHANGED <<mainVars, loaderVars, write_failed, caller, results_basic,
                   probeVars, aiVars, kb, audit_error, scoreVars>>
    /\ UNCHANGED auxVars

\* the field distribution, then the integrity score, then `return results`
IntegrityFields ==
    /\ pc = "int_field"
    /\ audit_queries' = audit_queries + 1
    /\ results_integrity' =
          [results_integrity EXCEPT
              !.field_distribution = TRUE,
              !.integrity_score = IntegrityScore(results_integrity)]
    /\ pc' = "int_ret"
    /\ UNCHANGED <<mainVars, loaderVars, write_failed, caller, results_basic,
                   probeVars, aiVars, kb, audit_error, scoreVars>>
    /\ UNCHANGED auxVars

\* any of the six queries raised: the one `except Exception` around the whole
\* body prints the error and the function returns what it had so far
IntegrityQueryRaises ==
    /\ pc \in {"int_count", "int_missing", "int_dup", "int_cit", "int_cat",
               "int_field"}
    /\ audit_queries' = audit_queries + 1
    /\ audit_error' = TRUE
    /\ pc' = "int_ret"
    /\ UNCHANGED <<mainVars, loaderVars, write_failed, caller, results_basic,
                   probeVars, aiVars, kb, results_integrity, scoreVars>>
    /\ UNCHANGED auxVars

\* ---- run_full_test_suite: the overall score, lines 431-448
RDivInt(x, k) == Rat(x[1], x[2] * k)

\* the success rate (successes / total) * 100
SuccessRate(successes, total) == Rat(successes * 100, total)

\* variant: the outcome of stress_test_insertion contributed as a first score
ComponentScoresWithLoader(basic, perf, ai, integ) ==
    (IF data_success = "True" /\ ~write_failed THEN << <<100, 1>> >>
     ELSE IF data_success = "False" /\ write_failed THEN << <<0, 1>> >>
     ELSE <<>>)
    \o (IF basic.connection_test THEN << <<100, 1>> >> ELSE <<>>)
    \o (IF perf.successful_queries > 0
           THEN <<SuccessRate(perf.successful_queries, perf.total_queries)>>
           ELSE <<>>)
    \o (IF ai.successful_responses > 0
           THEN <<SuccessRate(ai.successful_responses, ai.total_tests)>>
           ELSE <<>>)
    \o <<integ.integrity_score>>

\* scores = []; the conditional appends of lines 433-446
ComponentScores(basic, perf, ai, integ) ==
    (IF basic.connection_test THEN << <<100, 1>> >> ELSE <<>>)
    \o (IF perf.successful_queries > 0
           THEN <<SuccessRate(perf.successful_queries, perf.total_queries)>>
           ELSE <<>>)
    \o (IF ai.successful_responses > 0
           THEN <<SuccessRate(ai.successful_responses, ai.total_tests)>>
           ELSE <<>>)
    \o <<integ.integrity_score>>

\* variant: the sum divided by the number of stages of the suite
OverallScoreOverStages(sc) ==
    IF sc # <<>> THEN RDivInt(RSum(sc), 4) ELSE <<0, 1>>

\* sum(scores) / len(scores) if scores else 0
OverallScore(sc) == IF sc # <<>> THEN RDivInt(RSum(sc), Len(sc)) ELSE <<0, 1>>

\* "Database Status" of display_test_results, line 611
Status(score) ==
    IF RGe(score, 70) THEN "healthy"
    ELSE IF RGe(score, 50) THEN "issues detected"
    ELSE "critical"

\* variant: the thresholds 80 and 60 of the "Recommendations" line
ExitCodeByRecommendation(score) ==
    IF RGe(score, 80) THEN 0 ELSE IF RGe(score, 60) THEN 1 ELSE 2

\* the exit code main() derives from the overall score, lines 1589-1603
ExitCode(score) ==
    IF RGe(score, 70) THEN 0 ELSE IF RGe(score, 50) THEN 1 ELSE 2

\* run_full_test_suite after its four tests: it keeps of integrity_results
\* the score it reads, computes the scores and returns
SuiteScore ==
    /\ pc = "int_ret" /\ caller = "suite"
    /\ integrity_results' = [integrity_score |-> results_integrity.integrity_score]
    /\ scores' = ComponentScores(basic_results, performance_results,
                                 ai_results, integrity_results')
    /\ overall_score' = OverallScore(scores')
    /\ kb' = EmptyKB /\ results_integrity' = IntegrityInit
    /\ pc' = "suite_ret"
    /\ UNCHANGED <<mainVars, loaderVars, write_failed, caller, results_basic,
                   probeVars, aiVars, audit_queries, audit_error,
                   basic_results, performance_results, display_status>>
    /\ UNCHANGED auxVars

\* display_test_results(test_results); in the interactive menu (choice 5)
\* run_interactive_tests then returns and main returns 0
DisplayTestResults ==
    /\ pc = "suite_ret"
    /\ display_status' = Status(overall_score)
    /\ IF args.interactive
          THEN pc' = "done" /\ exit_code' = 0
          ELSE pc' = "main_exit" /\ exit_code' = exit_code
    /\ UNCHANGED <<args, connect_result, error, interrupted, prompts,
                   data_success, loaderVars, write_failed, caller,
                   results_basic, probeVars, aiVars, auditVars,
                   basic_results, performance_results, integrity_results,
                   scores, overall_score>>
    /\ UNCHANGED auxVars

\* main(): the exit code from the overall score
ExitByScore ==
    /\ pc = "main_exit"
    /\ exit_code' = ExitCode(overall_score)
    /\ pc' = "done"
    /\ UNCHANGED <<args, connect_result, error, interrupted, prompts,
                   data_success, loaderVars, write_failed, suiteVars>>
    /\ UNCHANGED auxVars

\* ------------------------------------------------- run_interactive_tests
InteractiveBasic ==
    /\ pc = "main_mode" /\ args.interactive
    /\ caller' = "interactive"
    /\ pc' = "basic"
    /\ UNCHANGED <<mainVars, loaderVars, write_failed, results_basic,
                   probeVars, aiVars, auditVars, scoreVars>>
    /\ UNCHANGED auxVars

\* choice 2: num_queries = IntPrompt.ask("Number of queries to test")
InteractiveSearch ==
    /\ pc = "main_mode" /\ args.interactive
    /\ caller' = "interactive"
    /\ num_queries' \in 0..(CorpusSize + 1)
    /\ pc' = "search_sample"
    /\ UNCHANGED <<mainVars, loaderVars, write_failed, results_basic,
                   test_queries, query_i, results_search, aiVars, auditVars,
                   scoreVars>>
    /\ UNCHANGED auxVars

\* choice 3: num_tests = IntPrompt.ask("Number of AI tests to run")
InteractiveAi ==
    /\ pc = "main_mode" /\ args.interactive
    /\ caller' = "interactive"
    /\ \E n \in 0..(AiCorpusSize + 1) :
          /\ num_tests' = n
          /\ ai_n' = Min(n, AiCorpusSize)
    /\ ai_i' = 0
    /\ ai_results' = AiInit
    /\ pc' = "ai_loop"
    /\ UNCHANGED <<mainVars, loaderVars, write_failed, results_basic,
                   probeVars, auditVars, scoreVars>>
    /\ UNCHANGED auxVars

InteractiveIntegrity ==
    /\ pc = "main_mode" /\ args.interactive
    /\ caller' = "interactive"
    /\ kb' \in KBs
    /\ audit_queries' = 0
    /\ audit_error' = FALSE
    /\ results_integrity' = IntegrityInit
    /\ pc' = "int_count"
    /\ UNCHANGED <<mainVars, loaderVars, write_failed, results_basic,
                   probeVars, aiVars, scoreVars>>
    /\ UNCHANGED auxVars

InteractiveFullSuite ==
    /\ pc = "main_mode" /\ args.interactive
    /\ pc' = "suite_start"
    /\ UNCHANGED <<mainVars, loaderVars, write_failed, suiteVars>>
    /\ UNCHANGED auxVars

\* choice 6: the custom query runs inside its own try/except Exception
InteractiveCustomQuery ==
    /\ pc = "main_mode" /\ args.interactive
    /\ exit_code' = 0
    /\ pc' = "done"
    /\ UNCHANGED <<args, connect_result, error, interrupted, prompts,
                   data_success, loaderVars, write_failed, suiteVars>>
    /\ UNCHANGED auxVars

\* choice 2 prints successful_queries / total_queries * 100
SearchPrintRaises(r) == r.total_queries = 0

\* the chosen test returned to run_interactive_tests, which prints its result;
\* main then returns 0, or 1 from `except Exception` if the printing raised
InteractiveReturn ==
    /\ caller = "interactive"
    /\ pc \in {"basic_ret", "search_ret", "ai_ret", "int_ret"}
    /\ IF pc = "search_ret" /\ SearchPrintRaises(results_search)
          THEN error' = "ZeroDivisionError" /\ exit_code' = 1
          ELSE error' = error /\ exit_code' = 0
    /\ pc' = "done"
    /\ UNCHANGED <<args, connect_result, interrupted, prompts, data_success,
                   loaderVars, write_failed, suiteVars>>
    /\ UNCHANGED auxVars

\* ------------------------------------------------------------ interrupts
\* the positions inside the try block of main() that are not inside the try
\* block of stress_test_insertion
MainTryPcs ==
    {"main_mode", "ins_confirm", "ins_report", "suite_start", "basic",
     "basic_ret", "search_sample", "search_loop", "search_ret", "ai_loop",
     "ai_ret", "int_count", "int_missing", "int_dup", "int_cit", "int_cat",
     "int_field", "int_ret", "suite_ret", "main_exit"}

SuiteReset ==
    /\ caller' = "none"
    /\ results_basic' = BasicInit
    /\ basic_results' = [connection_test |-> FALSE]
    /\ num_queries' = 0 /\ test_queries' = <<>> /\ query_i' = 0
    /\ results_search' = SearchInit
    /\ num_tests' = 0 /\ ai_n' = 0 /\ ai_i' = 0 /\ ai_results' = AiInit
    /\ kb' = EmptyKB /\ audit_queries' = 0 /\ audit_error' = FALSE
    /\ results_integrity' = IntegrityInit
    /\ performance_results' = [successful_queries |-> 0, total_queries |-> 0]
    /\ integrity_results' = [integrity_score |-> <<0, 1>>]
    /\ scores' = <<>> /\ overall_score' = <<0, 1>>
    /\ display_status' = "none"

\* KeyboardInterrupt there: the frames of the running functions are unwound
\* (their locals are gone) up to `except KeyboardInterrupt: return 1` of main()
InterruptMain ==
    /\ pc \in MainTryPcs
    /\ interrupted' = "main"
    /\ exit_code' = 1
    /\ pc' = "done"
    /\ LoaderReset
    /\ SuiteReset
    /\ UNCHANGED <<args, connect_result, error, prompts, data_success,
                   write_failed>>
    /\ UNCHANGED auxVars

Next ==
    \/ Connect
    \/ TestOnly
    \/ CallInsertion
    \/ ConfirmInsertion
    \/ StartBatch
    \/ WriteOk
    \/ WriteFail
    \/ BatchMetrics
    \/ BatchesDone
    \/ InterruptInsertion
    \/ ReportInsertion
    \/ RunFullTestSuite
    \/ TestBasicDatabaseOperations
    \/ SuiteCallSearch
    \/ SampleQueries
    \/ QueryOk
    \/ QueryFail
    \/ SearchReturn
    \/ SuiteCallAi
    \/ AiOk
    \/ AiFail
    \/ AiReturn
    \/ SuiteCallIntegrity
    \/ IntegrityCount
    \/ IntegrityMissing
    \/ IntegrityDuplicates
    \/ IntegrityCitations
    \/ IntegrityCategories
    \/ IntegrityFields
    \/ IntegrityQueryRaises
    \/ SuiteScore
    \/ DisplayTestResults
    \/ ExitByScore
    \/ InteractiveBasic
    \/ InteractiveSearch
    \/ InteractiveAi
    \/ InteractiveIntegrity
    \/ InteractiveFullSuite
    \/ InteractiveCustomQuery
    \/ InteractiveReturn
    \/ InterruptMain

Spec == Init /\ [][Next]_vars

TypeOK ==
    /\ exit_code \in {Running, 0, 1, 2}
    /\ pc \in MainTryPcs \cup {"main_connect", "ins_batch", "ins_write", "done"}
    /\ successful_inserts \in 0..MaxRecords
    /\ failed_inserts \in 0..MaxRecords
    /\ audit_queries \in 0..6

\* =================================================================
\* StressTestDataGenerator called on its own
\* =================================================================
\* main() before its first step, with no flag given
MainIdle ==
    /\ pc = "main_connect"
    /\ args = [interactive |-> FALSE, test_only |-> FALSE, no_confirm |-> FALSE]
    /\ connect_result = "unset"
    /\ exit_code = Running
    /\ error = "none"
    /\ interrupted = "no"
    /\ prompts = 0
    /\ data_success = "unset"
    /\ write_failed = FALSE
    /\ LoaderIdle
    /\ SuiteIdle

\* ---- random.choices(population, weights)[0]
\* itertools.accumulate(weights)
Accumulate(w) == [i \in 1..Len(w) |-> SumSeq(SubSeq(w, 1, i))]

\* variant: bisect_left, the number of entries of a[0:hi] below x
BisectLeft(a, x, hi) == Cardinality({i \in 1..hi : a[i] < x})

\* bisect.bisect(a, x, 0, hi): the number of entries of a[0:hi] that are
\* <= x.  x is random() * total, a real in [0, total); the entries of a are
\* integers, so only the integer part r of x matters.
Bisect(a, r, hi) == Cardinality({i \in 1..hi : a[i] <= r})

\* population[bisect(cum_weights, random() * total, 0, len(population) - 1)]
Choices(population, weights, r) ==
    population[Bisect(Accumulate(weights), r, Len(population) - 1) + 1]

\* the integer parts random() * total can have
ChoicesDraws(weights) == 0..(SumSeq(weights) - 1)

\* ---- generate_authors
AuthorCounts == <<1, 2, 3, 4, 5, 6, 7, 8>>

AuthorWeights == <<5, 15, 25, 25, 15, 10, 3, 2>>

\* num_authors = random.choices([1..8], weights=[...])[0]
NumAuthors(r) == Choices(AuthorCounts, AuthorWeights, r)

\* ---- str.format and the templates
\* the placeholders of the ten title patterns
TitlePatterns ==
    << {"method", "application", "domain"},
       {"adjective", "method", "task", "domain"},
       {"method", "application", "adjective"},
       {"adjective", "method", "task"},
       {"method", "method2", "application", "domain"},
       {"adjective", "task", "method"},
       {"method", "adjective", "application"},
       {"task", "method"},
       {"adjective", "method", "domain"},
       {"adjective", "method", "task"} >>

\* variant: the keyword method2 is not passed to format
TitleSlotsWithoutMethod2 ==
    [method |-> 27, application |-> 10, domain |-> 13, task |-> 12,
     adjective |-> 15]

\* the keyword arguments of pattern.format(...), each with the length of
\* the list random.choice draws its value from
TitleSlots ==
    [method |-> 27, method2 |-> 27, application |-> 10, domain |-> 13,
     task |-> 12, adjective |-> 15]

\* the placeholders of the five abstract templates
AbstractTemplates ==
    << {"problem", "method", "metrics", "performance", "applications"},
       {"problem", "method", "limitation", "innovation", "datasets",
        "improvement"},
       {"problem", "domain", "challenge", "contribution", "capability",
        "results", "future_work"},
       {"problem", "field", "method", "technique", "aspect", "innovation",
        "benefit", "performance", "domain"},
       {"domain", "problem", "method", "adjective", "technique1",
        "technique2", "goal", "datasets", "improvement", "applications"} >>

\* the keyword arguments of template.format(...), with the list lengths
AbstractSlots ==
    [problem |-> 9, method |-> 6, metrics |-> 5, performance |-> 5,
     applications |-> 5, limitation |-> 5, innovation |-> 5, datasets |-> 5,
     improvement |-> 4, domain |-> 7, challenge |-> 6, contribution |-> 5,
     capability |-> 5, results |-> 5, future_work |-> 5, field |-> 5,
     technique |-> 5, aspect |-> 5, benefit |-> 5, adjective |-> 5,
     technique1 |-> 5, technique2 |-> 5, goal |-> 5]

\* template.format(k1=random.choice(list1), ...): the arguments are
\* evaluated first (random.choice of an empty list raises IndexError), then
\* every placeholder is looked up among the keywords (KeyError when it is
\* missing) and replaced by the word drawn; unused keywords are ignored.
Format(template, slots) ==
    IF \E k \in DOMAIN slots : slots[k] = 0
       THEN [kind |-> "IndexError", replaced |-> {}]
       ELSE IF \E ph \in template : ph \notin DOMAIN slots
               THEN [kind |-> "KeyError", replaced |-> {}]
               ELSE [kind |-> "str", replaced |-> template]

\* generate_realistic_title with pattern number i drawn
GenerateRealisticTitle(i) == Format(TitlePatterns[i], TitleSlots)

\* generate_realistic_abstract with template number i drawn
GenerateRealisticAbstract(i) == Format(AbstractTemplates[i], AbstractSlots)

\* a str of the Paper, or the exception that format raised
TextOrError(f) == IF f.kind = "str" THEN "text" ELSE f.kind

\* what generate_fake_paper can get from the two functions
TitleOutcomes ==
    {TextOrError(GenerateRealisticTitle(i)) : i \in 1..Len(TitlePatterns)}

AbstractOutcomes ==
    {TextOrError(GenerateRealisticAbstract(i)) : i \in 1..Len(AbstractTemplates)}

\* ---- generate_fake_paper
\* the lists of __init__, of which the model keeps the first two entries
Categories == {"cs.AI", "cs.LG"}

ResearchFields == {"Machine Learning", "Computer Vision"}

PaperTypes == {"Research Paper", "Review Paper"}

\* range(0, 3650) and its weights [3650 - i for i in range(3650)]
DayRange == [i \in 1..WindowDays |-> i - 1]

DayWeights == [i \in 1..WindowDays |-> WindowDays - (i - 1)]

\* days_ago = random.choices(range(0, 3650), weights=[...])[0]
DaysAgo(r) == Choices(DayRange, DayWeights, r)

\* the day number of datetime.now(); both clock readings of
\* generate_fake_paper fall on the same day
Today == WindowDays

\* (datetime.now() - timedelta(days=days_ago)).strftime("%Y-%m-%d"): the
\* date, as a day number
PubDate(days_ago) == Today - days_ago

\* (datetime.now() - datetime.strptime(pub_date, "%Y-%m-%d")).days
PaperAgeDays(pub_date) == Today - pub_date

\* int(x) of a rational: truncation towards zero
IntOf(x) ==
    IF x[1] >= 0 THEN x[1] \div x[2] ELSE 0 - ((0 - x[1]) \div x[2])

\* random.expovariate(0.1) * paper_age_years * 10, where the draw is
\* q/ExpoDen and paper_age_years is days/365
RawCitations(q, days) == <<q * days * 10, ExpoDen * 365>>

\* base_citations = max(0, int(...))
BaseCitations(q, days) == Max(0, IntOf(RawCitations(q, days)))

\* variant: the sum of base and noise is not clamped at 0
CitationCountUnclamped(q, days, noise) == BaseCitations(q, days) + noise

\* citation_count = max(0, base_citations + random.randint(-50, 200))
CitationCount(q, days, noise) == Max(0, BaseCitations(q, days) + noise)

\* uuid.uuid4(): the n-th call gives a value no earlier call gave (a
\* collision of two random 122-bit values is not modelled)
Uuid4(n) == n

\* the Paper returned, of which the model keeps the fields below (title and
\* abstract as "text": the str that format returned)
GenerateFakePaper(id, title, days_ago, q, noise, category, field, type, abstract) ==
    LET pub_date == PubDate(days_ago)
    IN  [paper_id |-> id,
         title |-> title,
         category |-> category,
         pub_date |-> pub_date,
         research_field |-> field,
         paper_type |-> type,
         citation_count |-> CitationCount(q, PaperAgeDays(pub_date), noise),
         abstract |-> abstract]

\* the Papers generate_fake_paper can return, over all its random draws,
\* up to their paper_id
PaperDraws ==
    {GenerateFakePaper(0, "text", DaysAgo(r), q, noise, c, f, t, "text") :
        r \in ChoicesDraws(DayWeights), q \in 0..MaxExpoNum,
        noise \in (0 - NoiseLow)..NoiseHigh,
        c \in Categories, f \in ResearchFields, t \in PaperTypes}

\* the values generate_fake_paper can return when the n-th uuid is drawn
FakePapers(n) == {[p EXCEPT !.paper_id = Uuid4(n)] : p \in PaperDraws}

\* ---- the calls
\* generator.generate_authors()
CallGenerateAuthors ==
    /\ gen_pc = "idle"
    /\ \E r \in ChoicesDraws(AuthorWeights) :
          /\ gen_draw' = [kind |-> "choices", r |-> r]
          /\ gen_result' = [kind |-> "str", num_authors |-> NumAuthors(r)]
    /\ gen_op' = "generate_authors"
    /\ gen_pc' = "returned"
    /\ UNCHANGED <<gen_count, gen_papers, gen_uuids>>
    /\ UNCHANGED <<programVars, scriptVars>>

\* generator.generate_realistic_title()
CallGenerateRealisticTitle ==
    /\ gen_pc = "idle"
    /\ \E i \in 1..Len(TitlePatterns) :
          /\ gen_draw' = [kind |-> "choice", index |-> i]
          /\ gen_result' = GenerateRealisticTitle(i)
          /\ gen_pc' = IF GenerateRealisticTitle(i).kind = "str"
                          THEN "returned" ELSE "raised"
    /\ gen_op' = "generate_realistic_title"
    /\ UNCHANGED <<gen_count, gen_papers, gen_uuids>>
    /\ UNCHANGED <<programVars, scriptVars>>

\* generator.generate_realistic_abstract(title)
CallGenerateRealisticAbstract ==
    /\ gen_pc = "idle"
    /\ \E i \in 1..Len(AbstractTemplates) :
          /\ gen_draw' = [kind |-> "choice", index |-> i]
          /\ gen_result' = GenerateRealisticAbstract(i)
          /\ gen_pc' = IF GenerateRealisticAbstract(i).kind = "str"
                          THEN "returned" ELSE "raised"
    /\ gen_op' = "generate_realistic_abstract"
    /\ UNCHANGED <<gen_count, gen_papers, gen_uuids>>
    /\ UNCHANGED <<programVars, scriptVars>>

\* generator.generate_fake_paper(): the draws behind citation_count are
\* kept next to the Paper returned
CallGenerateFakePaper ==
    /\ gen_pc = "idle"
    /\ \E title \in TitleOutcomes, abstract \in AbstractOutcomes :
          IF title # "text" \/ abstract # "text"
             THEN /\ gen_pc' = "raised"
                  /\ gen_result' =
                        [kind |-> IF title # "text" THEN title ELSE abstract]
                  /\ UNCHANGED <<gen_draw, gen_uuids>>
             ELSE /\ \E r \in ChoicesDraws(DayWeights), q \in 0..MaxExpoNum,
                        noise \in (0 - NoiseLow)..NoiseHigh,
                        c \in Categories, f \in ResearchFields,
                        t \in PaperTypes :
                        /\ gen_draw' = [kind |-> "paper", days_ago |-> DaysAgo(r),
                                        expovariate |-> <<q, ExpoDen>>,
                                        randint |-> noise]
                        /\ gen_result' =
                              [kind |-> "Paper",
                               paper |-> GenerateFakePaper(Uuid4(gen_uuids + 1),
                                             title, DaysAgo(r), q, noise,
                                             c, f, t, abstract)]
                  /\ gen_uuids' = gen_uuids + 1
                  /\ gen_pc' = "returned"
    /\ gen_op' = "generate_fake_paper"
    /\ UNCHANGED <<gen_count, gen_papers>>
    /\ UNCHANGED <<programVars, scriptVars>>

\* generator.generate_batch(count)
CallGenerateBatch ==
    /\ gen_pc = "idle"
    /\ gen_count' \in 0..MaxGenBatch
    /\ gen_papers' = <<>>
    /\ gen_op' = "generate_batch"
    /\ gen_pc' = "batch"
    /\ UNCHANGED <<gen_uuids, gen_draw, gen_result>>
    /\ UNCHANGED <<programVars, scriptVars>>

\* one iteration of [self.generate_fake_paper() for _ in range(count)]; an
\* exception of generate_fake_paper leaves the comprehension
BatchGenerateFakePaper ==
    /\ gen_pc = "batch"
    /\ Len(gen_papers) < gen_count
    /\ \E title \in TitleOutcomes, abstract \in AbstractOutcomes :
          IF title # "text" \/ abstract # "text"
             THEN /\ gen_pc' = "raised"
                  /\ gen_result' =
                        [kind |-> IF title # "text" THEN title ELSE abstract]
                  /\ UNCHANGED <<gen_papers, gen_uuids>>
             ELSE /\ \E p \in FakePapers(gen_uuids + 1) :
                        gen_papers' = Append(gen_papers, p)
                  /\ gen_uuids' = gen_uuids + 1
                  /\ UNCHANGED <<gen_pc, gen_result>>
    /\ UNCHANGED <<gen_op, gen_count, gen_draw>>
    /\ UNCHANGED <<programVars, scriptVars>>

\* range(count) is exhausted: the list is returned
BatchReturn ==
    /\ gen_pc = "batch"
    /\ Len(gen_papers) = gen_count
    /\ gen_result' = [kind |-> "list", len |-> Len(gen_papers)]
    /\ gen_pc' = "returned"
    /\ UNCHANGED <<gen_op, gen_count, gen_papers, gen_uuids, gen_draw>>
    /\ UNCHANGED <<programVars, scriptVars>>

GenInit == MainIdle /\ GenIdle /\ ScriptIdle

GenNext ==
    \/ CallGenerateAuthors
    \/ CallGenerateRealisticTitle
    \/ CallGenerateRealisticAbstract
    \/ CallGenerateFakePaper
    \/ CallGenerateBatch
    \/ BatchGenerateFakePaper
    \/ BatchReturn

GenSpec == GenInit /\ [][GenNext]_vars

\* =================================================================
\* test_ai_workflow.py and JobManager
\* =================================================================
\* bool(x) of a value connect() can return
Truthy(v) == v \notin {"None", "False"}

\* test_ai_workflow(): manager.connect() and the test of its result
\* (`if not manager.connect(): ... return False`)
TestAiWorkflowConnect ==
    /\ script_pc = "idle"
    /\ \E outcome \in {"kb_found", "kb_created", "kb_create_exit", "conn_error"} :
          /\ wf_connect' = [outcome |-> outcome, result |-> ConnectReturn(outcome)]
          /\ IF ~Truthy(ConnectReturn(outcome))
                THEN script_pc' = "wf_returned" /\ wf_result' = "False"
                ELSE script_pc' = "wf_paper" /\ wf_result' = wf_result
    /\ UNCHANGED <<job_query, job_rows, job_failed, script_uuids>>
    /\ UNCHANGED <<programVars, genVars>>

\* JobManager.create_insertion_job(interval_minutes): the f-string is
\* evaluated once, here, so the two uuid4 values are literals of the query
\* text; the query is then sent, and an exception makes the method return
\* False.
CreateInsertionJob ==
    /\ script_pc = "idle"
    /\ \E interval_minutes \in 1..MaxInterval, created \in BOOLEAN :
          IF created
             THEN /\ job_query' = [kind |-> "job",
                                   paper_id |-> Uuid4(script_uuids + 1),
                                   arxiv_id |-> Uuid4(script_uuids + 2),
                                   every |-> interval_minutes]
                  /\ script_pc' = "job_created"
             ELSE /\ job_query' = job_query
                  /\ script_pc' = "job_not_created"
    /\ script_uuids' = script_uuids + 2
    /\ UNCHANGED <<wf_connect, wf_result, job_rows, job_failed>>
    /\ UNCHANGED <<programVars, genVars>>

\* the server executes the job: the INSERT of the query text runs with the
\* values it holds, and adds a row or fails
ExecuteJob ==
    /\ script_pc = "job_created"
    /\ Len(job_rows) + job_failed < MaxExecutions
    /\ \E inserted \in BOOLEAN :
          IF inserted
             THEN /\ job_rows' =
                        Append(job_rows,
                               [paper_id |-> job_query.paper_id,
                                arxiv_id |-> job_query.arxiv_id,
                                run |-> Len(job_rows) + job_failed + 1])
                  /\ job_failed' = job_failed
             ELSE /\ job_failed' = job_failed + 1
                  /\ job_rows' = job_rows
    /\ UNCHANGED <<script_pc, wf_connect, wf_result, job_query, script_uuids>>
    /\ UNCHANGED <<programVars, genVars>>

\* JobManager.delete_job(): DROP JOB; when the query raises the job stays
DeleteJob ==
    /\ script_pc = "job_created"
    /\ \E dropped \in BOOLEAN :
          script_pc' = IF dropped THEN "job_deleted" ELSE script_pc
    /\ UNCHANGED <<wf_connect, wf_result, job_query, job_rows, job_failed,
                   script_uuids>>
    /\ UNCHANGED <<programVars, genVars>>

ScriptInit == MainIdle /\ GenIdle /\ ScriptIdle

ScriptNext ==
    \/ TestAiWorkflowConnect
    \/ CreateInsertionJob
    \/ ExecuteJob
    \/ DeleteJob

ScriptSpec == ScriptInit /\ [][ScriptNext]_vars

\* =================================================================
\* Properties
\* =================================================================
\* write attempts of batch b (0-based, as batch_num)
Attempts(b) == Cardinality({i \in 1..Len(write_log) : write_log[i].batch = b})

\* write attempts that returned / that raised
OkWrites == Cardinality({i \in 1..Len(write_log) : write_log[i].ok})

FailedWrites == Cardinality({i \in 1..Len(write_log) : ~write_log[i].ok})

BatchHadError(b) ==
    \E i \in 1..Len(write_log) : write_log[i].batch = b /\ ~write_log[i].ok

\* C1: an uninterrupted stress_test_insertion run starts ceil(total/batch)
\* batches; all but the last request batch_size records, the last requests
\* total - (n-1)*batch_size, every size lies in 1..batch_size and the sizes
\* sum to total_records.
C1_BatchPartition ==
    (pc = "ins_report" /\ interrupted = "no") =>
        LET n == Len(gen_calls)
        IN  /\ n = CeilDiv(total_records, batch_size)
            /\ \A i \in 1..(n - 1) : gen_calls[i] = batch_size
            /\ gen_calls[n] = total_records - ((n - 1) * batch_size)
            /\ \A i \in 1..n : gen_calls[i] \in 1..batch_size
            /\ SumSeq(gen_calls) = total_records

\* C1 witness: a finished run of two batches whose last batch is short
C1_Witness ==
    /\ pc = "ins_report" /\ interrupted = "no"
    /\ Len(gen_calls) = 2
    /\ gen_calls[2] < batch_size

\* C2: every record generated for a batch gets a write attempt, whatever
\* the outcome of the earlier writes of that batch (stated for the batches
\* the loop has finished with).
C2_EveryRecordAttempted ==
    pc \in {"ins_batch", "ins_write", "ins_report"} =>
        \A b \in 0..(batch_num - 1) : Attempts(b) = gen_calls[b + 1]

\* C3: at the end of a run the failure count is the number of write
\* attempts that raised and the success count the number that returned.
C3_CountsMatchAttempts ==
    pc = "ins_report" =>
        /\ failed_inserts = FailedWrites
        /\ successful_inserts = OkWrites

\* C4: a cancellation takes effect only at a batch boundary: when the
\* loader is stopped by an interrupt, every batch it started has had all its
\* records attempted (or was cut short by a write error, which is C2's case).
C4_CancelOnlyAtBatchBoundary ==
    (pc = "ins_report" /\ interrupted = "loader") =>
        \A b \in 0..(Len(gen_calls) - 1) :
            Attempts(b) = gen_calls[b + 1] \/ BatchHadError(b)

\* C5: cancelling after k >= 0 completed batches never raises: the report
\* is produced from the counts of the k batches, with no entry of a later
\* batch.
C5_CancelNeverRaises ==
    (pc = "ins_report" /\ interrupted = "loader" /\ Len(gen_calls) = batch_num) =>
        /\ ~ReportRaises(successful_inserts, failed_inserts)
        /\ successful_inserts = OkWrites
        /\ \A i \in 1..Len(write_log) : write_log[i].batch < batch_num

\* C6: once connected, no write or query failure is fatal to a top-level
\* run: without an interrupt the loader goes through all its batches, and
\* the run ends with the probe, the AI tests and the audit run, the score
\* computed and displayed, and the exit code derived from the score.
C6_NoFailureIsFatal ==
    /\ (pc = "ins_report" /\ interrupted = "no") => Len(gen_calls) = num_batches
    /\ (pc = "done" /\ connect_result = "None" /\ ~args.interactive
           /\ interrupted = "no") =>
          /\ error = "none"
          /\ performance_results.total_queries = DefaultNumQueries
          /\ ai_results.total_tests = AiCorpusSize
          /\ audit_queries >= 1
          /\ scores # <<>>
          /\ display_status = Status(overall_score)
          /\ exit_code = ExitCode(overall_score)

\* C6 witness: a finished run in which a write, a probe query and an audit
\* query failed
C6_Witness ==
    /\ pc = "done" /\ connect_result = "None" /\ ~args.interactive
    /\ interrupted = "no" /\ error = "none"
    /\ write_failed
    /\ performance_results.successful_queries < performance_results.total_queries
    /\ audit_error
    /\ exit_code \in {0, 1, 2}

\* the queries test_search_performance has executed, in order
Executed == [i \in 1..Len(results_search.query_results) |->
                results_search.query_results[i].query]

\* C7: test_search_performance executes min(num_queries, corpus size)
\* queries, all distinct members of the corpus; when num_queries exceeds the
\* corpus size every corpus query is executed exactly once.
C7_SampleWithoutReplacement ==
    pc = "search_ret" =>
        /\ Len(Executed) = Min(num_queries, CorpusSize)
        /\ \A i \in 1..Len(Executed) : Executed[i] \in 1..CorpusSize
        /\ \A i, j \in 1..Len(Executed) : i # j => Executed[i] # Executed[j]
        /\ num_queries > CorpusSize =>
              \A q \in 1..CorpusSize :
                 Cardinality({i \in 1..Len(Executed) : Executed[i] = q}) = 1

\* C7 witness: a probe asked for more queries than the corpus holds
C7_Witness ==
    /\ pc = "search_ret"
    /\ num_queries > CorpusSize
    /\ Len(Executed) = CorpusSize

\* C8: a failing probe query never aborts the probe: every sampled query is
\* executed and counted once, as successful or as failed, and on return
\* total_queries = successful_queries + failed_queries = number of sampled
\* queries, with one query_results entry per sampled query.
C8_ProbeCountsEveryQuery ==
    pc = "search_ret" =>
        LET r == results_search
            qr == r.query_results
        IN  /\ r.total_queries = Len(test_queries)
            /\ r.total_queries = r.successful_queries + r.failed_queries
            /\ Len(qr) = Len(test_queries)
            /\ \A i \in 1..Len(qr) : qr[i].query = test_queries[i]
            /\ r.successful_queries =
                  Cardinality({i \in 1..Len(qr) : qr[i].success})
            /\ r.failed_queries =
                  Cardinality({i \in 1..Len(qr) : ~qr[i].success})

\* C8 witness: the first query failed and a later one succeeded
C8_Witness ==
    /\ pc = "search_ret"
    /\ Len(results_search.query_results) >= 2
    /\ ~results_search.query_results[1].success
    /\ results_search.successful_queries >= 1

\* latencies of the successful queries, from the per-query entries
SuccessLatencies ==
    LET ok == SelectSeq(results_search.query_results, LAMBDA e : e.success)
    IN  [i \in 1..Len(ok) |-> ok[i].response_time]

\* C9: the latency aggregates cover the successful queries only: the
\* average is their mean, min and max their minimum and maximum; failed
\* queries contribute nothing (with no success the initial values remain).
C9_LatencyOverSuccesses ==
    pc = "search_ret" =>
        LET r == results_search
            S == SuccessLatencies
        IN  IF S = <<>>
               THEN /\ r.average_response_time = <<0, 1>>
                    /\ r.min_response_time = Infinity
                    /\ r.max_response_time = 0
               ELSE /\ r.average_response_time[1] * Len(S)
                          = SumSeq(S) * r.average_response_time[2]
                    /\ \E i \in 1..Len(S) : S[i] = r.min_response_time
                    /\ \A i \in 1..Len(S) : S[i] >= r.min_response_time
                    /\ \E i \in 1..Len(S) : S[i] = r.max_response_time
                    /\ \A i \in 1..Len(S) : S[i] <= r.max_response_time

\* C9 witness: two successes of different latency and a failure
C9_Witness ==
    /\ pc = "search_ret"
    /\ results_search.successful_queries >= 2
    /\ results_search.failed_queries >= 1
    /\ results_search.min_response_time < results_search.max_response_time

\* C10: when the count query reports zero rows, test_data_integrity returns
\* all issue counts zero and integrity_score 0 and issues no query after the
\* count query.
C10_EmptyStoreAudit ==
    (pc = "int_ret" /\ ~audit_error /\ results_integrity.total_records = 0) =>
        /\ results_integrity.records_with_missing_fields = 0
        /\ results_integrity.duplicate_titles = 0
        /\ results_integrity.invalid_citations = 0
        /\ results_integrity.integrity_score = <<0, 1>>
        /\ audit_queries = 1

\* C10 witness: the audit of a store without rows has returned
C10_Witness ==
    /\ pc = "int_ret" /\ ~audit_error
    /\ TotalRows(kb) = 0
    /\ results_integrity.total_records = 0
    /\ audit_queries = 1

\* the issue counts test_data_integrity adds up
TotalIssues ==
    results_integrity.records_with_missing_fields
    + results_integrity.duplicate_titles
    + results_integrity.invalid_citations

\* C11: when all six audit queries returned and total_records > 0, the
\* integrity score s satisfies s * total_records = max(0, 100 * (total_records
\* - issues)) with issues = missing + duplicate + invalid, and 0 <= s <= 100;
\* total_records = 100 with counts 5, 3 and 2 gives 90.
C11_IntegrityScoreFormula ==
    /\ (pc = "int_ret" /\ ~audit_error /\ results_integrity.total_records > 0) =>
          LET s == results_integrity.integrity_score
              n == results_integrity.total_records
          IN  /\ audit_queries = 6
              /\ s[2] > 0
              /\ s[1] * n = Max(0, 100 * (n - TotalIssues)) * s[2]
              /\ s[1] >= 0
              /\ s[1] <= 100 * s[2]
    /\ IntegrityScore([total_records |-> 100, records_with_missing_fields |-> 5,
                       duplicate_titles |-> 3, invalid_citations |-> 2])
          = <<90, 1>>

\* C11 witness: an audit that found more issues than rows (the score is
\* clamped to 0)
C11_Witness ==
    /\ pc = "int_ret" /\ ~audit_error
    /\ results_integrity.total_records > 0
    /\ TotalIssues > results_integrity.total_records
    /\ results_integrity.integrity_score = <<0, 1>>

\* the duplicate query of test_data_integrity has returned
DupQueryReturned ==
    \/ pc \in {"int_cit", "int_cat", "int_field"}
    \/ pc = "int_ret" /\ audit_queries > 3

\* rows of the store whose title is carried by more than one row
RowsWithSharedTitle ==
    Cardinality({rw \in (1..NumTitles) \X (1..MaxPerTitle) :
                    rw[2] <= kb[rw[1]] /\ kb[rw[1]] > 1})

\* titles of the store carried by more than one row
SharedTitles ==
    Cardinality({t \in 1..NumTitles :
                    \E i, j \in 1..kb[t] : i # j})

C13_AuditQueryFailureIsolated ==
    (pc = "int_ret" /\ results_integrity.total_records > 0) =>
        LET s == results_integrity.integrity_score
            n == results_integrity.total_records
        IN  /\ audit_queries = 6
            /\ s[1] * n = Max(0, 100 * (n - TotalIssues)) * s[2]

\* product of the denominators of a sequence of rationals
RECURSIVE DenProduct(_)
DenProduct(sc) == IF sc = <<>> THEN 1 ELSE Head(sc)[2] * DenProduct(Tail(sc))

\* d times the sum of a sequence of rationals (d a multiple of every
\* denominator)
RECURSIVE ScaledSum(_, _)
ScaledSum(sc, d) ==
    IF sc = <<>> THEN 0
    ELSE (Head(sc)[1] * (d \div Head(sc)[2])) + ScaledSum(Tail(sc), d)

\* C14: when run_full_test_suite returns, the overall score is the sum of
\* the scores it collected divided by their number, the integrity score is
\* one of them (the last appended), and the overall score lies in [0, 100];
\* the components 100, 80, 90 and 70 average to 85, which is "healthy".
C14_OverallScoreIsMean ==
    /\ pc = "suite_ret" =>
          LET d == DenProduct(scores)
          IN  /\ scores # <<>>
              /\ scores[Len(scores)] = integrity_results.integrity_score
              /\ overall_score[2] > 0
              /\ overall_score[1] * d * Len(scores)
                    = ScaledSum(scores, d) * overall_score[2]
              /\ overall_score[1] >= 0
              /\ overall_score[1] <= 100 * overall_score[2]
    /\ OverallScore(<< <<100, 1>>, <<80, 1>>, <<90, 1>>, <<70, 1>> >>) = <<85, 1>>
    /\ Status(<<85, 1>>) = "healthy"

\* C14 witness: three components that are not all equal, with a mean that
\* is not a whole number
C14_Witness ==
    /\ pc = "suite_ret"
    /\ Len(scores) = 3
    /\ scores[2] # scores[3]
    /\ overall_score[2] > 1

\* C15: whenever the probe executed at least one query, its success rate
\* successful_queries / total_queries * 100 is one of the scores averaged
\* by run_full_test_suite (one of those before the integrity score, which
\* is last), also when every query failed and the rate is 0.
C15_ProbeRateIsComponent ==
    (pc = "suite_ret" /\ performance_results.total_queries > 0) =>
        \E i \in 1..(Len(scores) - 1) :
            scores[i][1] * performance_results.total_queries
               = 100 * performance_results.successful_queries * scores[i][2]

\* stress_test_insertion ran in this run of main() and all its writes failed
\* (it returned successful_inserts > 0 = False after a write raised)
LoaderAllFailed == data_success = "False" /\ write_failed

\* the rational x is the rate part / whole * 100
IsRate(x, part, whole) == whole > 0 /\ x[1] * whole = 100 * part * x[2]

C17_ConnectFailureAborts ==
    /\ connect_result = "False" =>
          /\ pc = "done"
          /\ exit_code # Running /\ exit_code # 0
          /\ prompts = 0
          /\ LoaderIdle /\ ~write_failed
          /\ SuiteIdle
    /\ (\/ write_log # <<>> \/ gen_calls # <<>>
        \/ results_search.total_queries > 0 \/ ai_results.total_tests > 0
        \/ audit_queries > 0
        \/ scores # <<>> \/ display_status # "none")
          => connect_result = "None"

\* C17 witness: a run that ended at the failed connect(), with nothing done
C17_Witness ==
    /\ connect_result = "False"
    /\ pc = "done"
    /\ exit_code > 0
    /\ scores = <<>> /\ audit_queries = 0 /\ write_log = <<>>

\* a run of main() went through run_full_test_suite and display_test_results
\* and returned
CompletedScoredRun == pc = "done" /\ display_status # "none"

\* the status the thresholds 70 and 50 give to the overall score
StatusByThreshold ==
    IF overall_score[1] >= 70 * overall_score[2] THEN "healthy"
    ELSE IF overall_score[1] >= 50 * overall_score[2] THEN "issues detected"
    ELSE "critical"

\* the exit code that goes with a status
CodeOfStatus(st) ==
    CASE st = "healthy" -> 0
      [] st = "issues detected" -> 1
      [] st = "critical" -> 2

\* C18 (as claimed): in every completed run of main() that computed an
\* overall score, the status displayed and the exit code are those the
\* thresholds give: >= 70 healthy and 0, >= 50 issues detected and 1, else
\* critical and 2.
C18_StatusAndExitCodeAgree ==
    CompletedScoredRun =>
        /\ display_status = StatusByThreshold
        /\ exit_code = CodeOfStatus(StatusByThreshold)

\* C18 (amended): the status displayed is always the one the thresholds
\* give; the exit code goes with it in every completed run without
\* --interactive, and is 0 whatever the score in an interactive run.
C18_StatusAndExitCodeAgreeUnlessInteractive ==
    CompletedScoredRun =>
        /\ display_status = StatusByThreshold
        /\ exit_code = IF args.interactive THEN 0
                                           ELSE CodeOfStatus(StatusByThreshold)

\* C18 witness: a completed run without --interactive whose score lies in
\* [50, 60) and which exits with 1
C18_Witness ==
    /\ CompletedScoredRun
    /\ ~args.interactive
    /\ overall_score[1] >= 50 * overall_score[2]
    /\ overall_score[1] < 60 * overall_score[2]
    /\ display_status = "issues detected"
    /\ exit_code = 1

\* main() returned because connect() reported a failure
ConnectFailureEnd == pc = "done" /\ connect_result = "False"

\* C19 (as claimed): the code main() returns after a failed connect() is
\* none of the three score-based codes 0, 1, 2.
C19_ConnectFailureCodeDistinct ==
    ConnectFailureEnd => exit_code \notin {0, 1, 2}

\* C19 (amended): the code after a failed connect() is 1; the scored runs
\* without --interactive that end healthy or critical return another code
\* (0 or 2), those that end with issues detected return the same code 1.
C19_ConnectFailureCodeIsOne ==
    /\ ConnectFailureEnd => exit_code = 1
    /\ (CompletedScoredRun /\ ~args.interactive) =>
          /\ display_status \in {"healthy", "critical"} => exit_code # 1
          /\ display_status = "issues detected" => exit_code = 1

\* C19 witness: main() returned 1 from the failed connect(), with no error
\* and no interrupt
C19_Witness ==
    /\ ConnectFailureEnd
    /\ exit_code = 1
    /\ error = "none" /\ interrupted = "no"

\* the user answered no to "Do you want to proceed?": stress_test_insertion
\* returned False without a write having failed
Declined == prompts = 1 /\ data_success = "False" /\ ~write_failed

\* the run computed a score, displayed it and returned the code that goes
\* with it
EndedByScore ==
    /\ CompletedScoredRun
    /\ scores # <<>>
    /\ performance_results.total_queries = DefaultNumQueries
    /\ audit_queries >= 1
    /\ exit_code = CodeOfStatus(StatusByThreshold)

\* C20 (as claimed): a run in which the user declined the load confirmation
\* or interrupted the load ends with exit code 1 and without a score or a
\* report.
C20_CancelEndsRun ==
    (pc = "done" /\ (Declined \/ interrupted = "loader")) =>
        /\ exit_code = 1
        /\ scores = <<>>
        /\ display_status = "none"

\* C20 (amended): a refusal of the load confirmation and an interrupt inside
\* the batch loop only end the load: unless the loader's report raises
\* (ZeroDivisionError, exit code 1, no score) or a later interrupt reaches
\* main(), the run goes on with the probe, the audit and the scoring and
\* returns the code of its score.  An interrupt that reaches main() ends the
\* run with exit code 1.
C20_CancelOfLoadContinuesWithTests ==
    pc = "done" =>
        /\ interrupted = "main" => exit_code = 1
        /\ (Declined /\ interrupted = "no") => EndedByScore
        /\ interrupted = "loader" =>
              IF error = "ZeroDivisionError"
                 THEN exit_code = 1 /\ scores = <<>> /\ display_status = "none"
                 ELSE EndedByScore

\* C20 witness: the user declined the load and the run ended healthy with
\* exit code 0
C20_Witness ==
    /\ pc = "done"
    /\ Declined /\ interrupted = "no"
    /\ EndedByScore
    /\ exit_code = 0

\* C21: with --no-confirm the user is never asked a confirmation question,
\* neither before the first write of the load nor later, and the load is
\* never ended by a prompt answer.
C21_NoConfirmNeverPrompts ==
    args.no_confirm =>
        /\ prompts = 0
        /\ ~Declined

\* C27: the loader records one per-batch throughput value for every batch
\* it runs, computed from the requested size of that batch, whether or not
\* a write of the batch failed (so the peak, the maximum of the recorded
\* values, ranges over all the batches of the run).
C27_ThroughputForEveryBatch ==
    (pc = "ins_report" /\ interrupted = "no") =>
        /\ Len(papers_per_second_history) = Len(gen_calls)
        /\ \A i \in 1..Len(gen_calls) :
               papers_per_second_history[i] = gen_calls[i]

\* C29: every generated record is accounted for exactly once: at every
\* point of the load successful_inserts + failed_inserts <= total_records,
\* with equality at the end of an uninterrupted run.
C29_CountsSumToTotal ==
    pc \in {"ins_batch", "ins_write", "ins_report"} =>
        /\ successful_inserts + failed_inserts <= total_records
        /\ (pc = "ins_report" /\ interrupted = "no") =>
               successful_inserts + failed_inserts = total_records

\* C30: every aggregate returned by test_search_performance has
\* min_response_time <= average_response_time <= max_response_time, all
\* three finite, also when no query succeeded.
C30_MinAvgMaxOrdered ==
    pc = "search_ret" =>
        LET r == results_search
            avg == r.average_response_time
        IN  /\ r.min_response_time # Infinity
            /\ r.min_response_time * avg[2] <= avg[1]
            /\ avg[1] <= r.max_response_time * avg[2]

\* generate_batch has returned its list
BatchReturned == gen_op = "generate_batch" /\ gen_pc = "returned"

\* C22: for every n >= 0 generate_batch(n) returns exactly n records; each
\* has citation_count >= 0, a publication date between 0 and
\* WindowDays - 1 (3649 in the source) days before the day of generation,
\* category, research_field and paper_type taken from the lists of the
\* generator, and a paper_id no other record of the batch has.
C22_BatchRecordsWellFormed ==
    BatchReturned =>
        /\ Len(gen_papers) = gen_count
        /\ gen_result.len = gen_count
        /\ \A i \in 1..Len(gen_papers) :
               LET p == gen_papers[i]
               IN  /\ p.citation_count >= 0
                   /\ (Today - p.pub_date) \in 0..(WindowDays - 1)
                   /\ p.category \in Categories
                   /\ p.research_field \in ResearchFields
                   /\ p.paper_type \in PaperTypes
        /\ \A i, j \in 1..Len(gen_papers) :
               i # j => gen_papers[i].paper_id # gen_papers[j].paper_id

\* C22 witness: a batch of two records that agree in every field but
\* paper_id, both of the oldest day and with citation count 0
C22_Witness ==
    /\ BatchReturned
    /\ gen_count = 2
    /\ gen_papers[1].pub_date = Today - (WindowDays - 1)
    /\ gen_papers[1].citation_count = 0
    /\ [gen_papers[2] EXCEPT !.paper_id = gen_papers[1].paper_id] = gen_papers[1]

\* generate_authors has returned
AuthorsReturned == gen_op = "generate_authors" /\ gen_pc = "returned"

\* the sum of the first k weights
WeightBelow(k) == SumSeq(SubSeq(AuthorWeights, 1, k))

\* C23: with the draw taken as a uniform integer r in 0..99, the author
\* count is the k of 1..8 whose cumulative weight interval holds r; every
\* count k is chosen for exactly weight[k] values of r, the weights sum to
\* 100 and no count outside 1..8 is produced.
C23_AuthorCountByWeight ==
    AuthorsReturned =>
        LET k == gen_result.num_authors
            r == gen_draw.r
        IN  /\ k \in 1..8
            /\ WeightBelow(k - 1) <= r /\ r < WeightBelow(k)
            /\ SumSeq(AuthorWeights) = 100
            /\ \A c \in 1..8 :
                   Cardinality({x \in 0..99 : NumAuthors(x) = c}) = AuthorWeights[c]

\* C23 witness: the draw 98, the first of the two that give eight authors
C23_Witness ==
    /\ AuthorsReturned
    /\ gen_draw.r = 98
    /\ gen_result.num_authors = 8

\* every placeholder of the template is a keyword whose list is not empty
AllSupplied(template, slots) ==
    \A ph \in template : ph \in DOMAIN slots /\ slots[ph] > 0

\* C24: record generation never fails and leaves no empty slot: no call of
\* the generator raises, a title or abstract returned has every placeholder
\* of its template replaced, and for each of the (at least 10) title
\* patterns and (at least 5) abstract templates every placeholder is among
\* the keywords supplied, each drawn from a non-empty list.
C24_TemplatesFullySupplied ==
    /\ gen_pc # "raised"
    /\ (gen_op = "generate_realistic_title" /\ gen_pc = "returned") =>
           /\ gen_result.kind = "str"
           /\ gen_result.replaced = TitlePatterns[gen_draw.index]
    /\ (gen_op = "generate_realistic_abstract" /\ gen_pc = "returned") =>
           /\ gen_result.kind = "str"
           /\ gen_result.replaced = AbstractTemplates[gen_draw.index]
    /\ gen_pc # "idle" =>
           /\ Len(TitlePatterns) >= 10
           /\ Len(AbstractTemplates) >= 5
           /\ \A i \in 1..Len(TitlePatterns) :
                  AllSupplied(TitlePatterns[i], TitleSlots)
           /\ \A i \in 1..Len(AbstractTemplates) :
                  AllSupplied(AbstractTemplates[i], AbstractSlots)

\* C24 witness: the title pattern with two methods was drawn and filled
C24_Witness ==
    /\ gen_op = "generate_realistic_title" /\ gen_pc = "returned"
    /\ gen_draw.index = 5
    /\ "method2" \in gen_result.replaced

\* a non-negative rational rounded to the nearest integer
RoundNearest(x) == ((2 * x[1]) + x[2]) \div (2 * x[2])

\* C26: the citation count of a generated record is
\* max(0, round(base) + noise), where base = max(0, e * ageYears * 10) is
\* rounded to the nearest integer (not truncated) and noise is the integer
\* drawn from the noise range.
C26_CitationRoundsBase ==
    (gen_op = "generate_fake_paper" /\ gen_pc = "returned") =>
        LET d == gen_draw
            raw == <<d.expovariate[1] * d.days_ago * 10,
                     d.expovariate[2] * 365>>
            base == IF raw[1] >= 0 THEN raw ELSE <<0, 1>>
        IN  /\ d.randint \in (0 - NoiseLow)..NoiseHigh
            /\ gen_result.paper.citation_count =
                   Max(0, RoundNearest(base) + d.randint)

\* C25: connect() reports success with a truthy result: when the
\* connection was established and the knowledge base found or created, the
\* caller testing `if not manager.connect()` goes on past the check.
C25_ConnectSuccessIsTruthy ==
    (script_pc \in {"wf_paper", "wf_returned"}
        /\ wf_connect.outcome \in {"kb_found", "kb_created"}) =>
        /\ Truthy(wf_connect.result)
        /\ script_pc = "wf_paper"

\* C28: the periodic job inserts a new paper on each execution: any two
\* rows its executions inserted have different paper_id values.
C28_JobInsertsDistinctPapers ==
    \A i, j \in 1..Len(job_rows) :
        i # j => job_rows[i].paper_id # job_rows[j].paper_id
====
